---- MODULE Spec2Model ----
(***************************************************************************)
(* Kinship queries of people/models.py (class Person): age, siblings,      *)
(* children, descendants, _ancestor_distances, ancestors, relatives, over  *)
(* the Person table with its mother/father self-references.                *)
(***************************************************************************)
EXTENDS Integers, Sequences, FiniteSets, TLC

VARIABLES gender, mother, father, date_of_birth, date_of_death, deceased,
          today, call

vars == <<gender, mother, father, date_of_birth, date_of_death, deceased,
          today, call>>

(* ---------------------------- bounds ---------------------------------- *)
\* rows of the Person table in the graph specification
NumPersons == 4
\* parent links recorded in the graph specification
MaxLinks == 4
\* frames the interpreter allows before it raises RuntimeError
\* ("maximum recursion depth exceeded"); larger than any acyclic chain here
RecursionLimit == 8
\* rows of the Person table in the kinship-naming specification
NamerPersons == 6
\* parent links recorded in the kinship-naming specification
NamerLinks == 6

(* ---------------------------- values ---------------------------------- *)
\* a null foreign key (blank=True, null=True)
None == 0

Date(y, m, d) == [year |-> y, month |-> m, day |-> d]
\* a null DateField
NoDate == Date(0, 0, 0)

\* the rows of the table
Persons == DOMAIN gender

GenderOf(p) == IF p % 2 = 1 THEN "F" ELSE "M"

EmptyMap == [k \in {} |-> 0]

\* a relationship label: its kind, the generations of a direct line, the
\* "great-" prefixes, the degree and removal of a cousin, the gender of the
\* person described
Label(kind, gen, greats, degree, removal, g) ==
    [kind |-> kind, gen |-> gen, greats |-> greats, degree |-> degree,
     removal |-> removal, gender |-> g]

NoLabel == Label("none", 0, 0, 0, 0, "")

\* what a method call leaves behind: the exception raised ("none" when it
\* returned) and the returned value, by its type
Idle ==
    [op |-> "idle", self |-> None, other |-> None, exc |-> "none",
     seq |-> <<>>, map |-> EmptyMap, set |-> {}, roots |-> {},
     labels |-> EmptyMap, label |-> NoLabel, known |-> FALSE, years |-> 0]

Returned(op, self) == [Idle EXCEPT !.op = op, !.self = self]

Ok(seq, map) == [exc |-> "none", seq |-> seq, map |-> map]
Raise(e) == [exc |-> e, seq |-> <<>>, map |-> EmptyMap]

Range(s) == {s[i] : i \in DOMAIN s}

(* ---------------------------- dates ----------------------------------- *)
DateLess(a, b) ==
    \/ a.year < b.year
    \/ a.year = b.year /\ a.month < b.month
    \/ a.year = b.year /\ a.month = b.month /\ a.day < b.day

\* order_by('date_of_birth'); rows with equal dates come in primary-key order
BirthBefore(p, q) ==
    \/ DateLess(date_of_birth[p], date_of_birth[q])
    \/ date_of_birth[p] = date_of_birth[q] /\ p < q

RECURSIVE order_by_date_of_birth(_)
order_by_date_of_birth(S) ==
    IF S = {} THEN <<>>
    ELSE LET first == CHOOSE p \in S : \A q \in S \ {p} : BirthBefore(p, q)
         IN <<first>> \o order_by_date_of_birth(S \ {first})

(* ---------------------------- age ------------------------------------- *)
\* age() with the birthday itself counted as not yet reached
age_birthday_not_reached(self) ==
    IF date_of_birth[self] = NoDate
          \/ (deceased[self] /\ date_of_death[self] = NoDate)
    THEN [known |-> FALSE, years |-> 0]
    ELSE LET end == IF deceased[self] THEN date_of_death[self] ELSE today
             born == date_of_birth[self]
             years == end.year - born.year
         IN [known |-> TRUE,
             years |-> IF end.month < born.month
                          \/ (end.month = born.month /\ end.day <= born.day)
                       THEN years - 1 ELSE years]

age(self) ==
    IF date_of_birth[self] = NoDate
          \/ (deceased[self] /\ date_of_death[self] = NoDate)
    THEN [known |-> FALSE, years |-> 0]
    ELSE LET end == IF deceased[self] THEN date_of_death[self] ELSE today
             born == date_of_birth[self]
             years == end.year - born.year
         IN [known |-> TRUE,
             years |-> IF end.month < born.month
                          \/ (end.month = born.month /\ end.day < born.day)
                       THEN years - 1 ELSE years]

(* ---------------------------- siblings -------------------------------- *)
\* the lookup father=x of the ORM: IS NULL for x = None, equality otherwise
FieldIs(field, row, x) == field[row] = x
\* the filter without its ~Q(...=None) terms
FieldNullAllowed(field, row) == TRUE

\* ~Q(father=None)
FieldNotNull(field, row) == ~FieldIs(field, row, None)

SiblingFilter(self, row) ==
    /\ ~(row = self)
    /\ \/ FieldNotNull(father, row) /\ FieldIs(father, row, father[self])
       \/ FieldNotNull(mother, row) /\ FieldIs(mother, row, mother[self])

siblings(self) ==
    order_by_date_of_birth({row \in Persons : SiblingFilter(self, row)})

(* ---------------------------- children -------------------------------- *)
children_of_mother(self) == {c \in Persons : mother[c] = self}
children_of_father(self) == {c \in Persons : father[c] = self}

\* children() without the switch on gender
children_of_mother_only(self) == order_by_date_of_birth(children_of_mother(self))

children(self) ==
    LET offspring == IF gender[self] = "F" THEN children_of_mother(self)
                     ELSE children_of_father(self)
    IN order_by_date_of_birth(offspring)

(* ---------------------------- descendants ----------------------------- *)
RECURSIVE descendants(_, _)
RECURSIVE DescendInto(_, _, _)

\* the loop "for child in children: descendants += child.descendants()"
\* from its i-th iteration on; an exception in one iteration ends the call
DescendInto(ch, i, depth) ==
    IF i > Len(ch) THEN Ok(<<>>, EmptyMap)
    ELSE LET r == descendants(ch[i], depth + 1)
         IN IF r.exc # "none" THEN r
            ELSE LET rest == DescendInto(ch, i + 1, depth)
                 IN IF rest.exc # "none" THEN rest
                    ELSE Ok(r.seq \o rest.seq, EmptyMap)

descendants(self, depth) ==
    IF depth >= RecursionLimit THEN Raise("RuntimeError")
    ELSE LET ch == children(self)
             below == DescendInto(ch, 1, depth)
         IN IF below.exc # "none" THEN below
            ELSE Ok(ch \o below.seq, EmptyMap)

(* ---------------------------- ancestors ------------------------------- *)
\* dict.update: the keys of b overwrite those of a
Update(a, b) ==
    [k \in (DOMAIN a) \cup (DOMAIN b) |-> IF k \in DOMAIN b THEN b[k] ELSE a[k]]

\* ancestors[key] = value
SetItem(a, key, value) == Update(a, [k \in {key} |-> value])

RECURSIVE _ancestor_distances(_, _)
_ancestor_distances(self, offset) ==
    IF offset >= RecursionLimit THEN Raise("RuntimeError")
    ELSE
      LET viaMother ==
            IF mother[self] # None
            THEN LET r == _ancestor_distances(mother[self], offset + 1)
                 IN IF r.exc # "none" THEN r
                    ELSE Ok(<<>>, Update(SetItem(EmptyMap, mother[self], offset + 1), r.map))
            ELSE Ok(<<>>, EmptyMap)
      IN IF viaMother.exc # "none" THEN viaMother
         ELSE IF father[self] # None
              THEN LET r == _ancestor_distances(father[self], offset + 1)
                   IN IF r.exc # "none" THEN r
                      ELSE Ok(<<>>, Update(SetItem(viaMother.map, father[self], offset + 1), r.map))
              ELSE viaMother

\* the keys of the distance map (the callee is spelt ancestor_distances in
\* the source; _ancestor_distances is the method of the class it names)
ancestors(self) ==
    LET r == _ancestor_distances(self, 0)
    IN IF r.exc # "none" THEN [exc |-> r.exc, set |-> {}]
       ELSE [exc |-> "none", set |-> DOMAIN r.map]

(* ---------------------------- kinship names -------------------------- *)
Min(a, b) == IF a <= b THEN a ELSE b
Max(a, b) == IF a <= b THEN b ELSE a
Abs(a) == IF a < 0 THEN 0 - a ELSE a

\* the common ancestors of two distance maps that minimise da + db
closest_common_ancestors(A, B) ==
    LET common == (DOMAIN A) \cap (DOMAIN B)
    IN {a \in common : \A b \in common : A[a] + B[a] <= A[b] + B[b]}

\* the label for distances da (subject) and db (other) to the closest
\* common ancestor; full is TRUE when both parents are shared
collateral_label(da, db, full, g) ==
    IF da = 1 /\ db = 1
    THEN Label(IF full THEN "sibling" ELSE "half-sibling", 0, 0, 0, 0, g)
    ELSE IF Min(da, db) = 1
    THEN Label(IF da < db THEN "aunt/uncle" ELSE "niece/nephew",
               0, Max(da, db) - 2, 0, 0, g)
    ELSE Label("cousin", 0, 0, Min(da, db) - 1, Abs(da - db), g)

describe_relative(subject, other) ==
    LET a == _ancestor_distances(subject, 0)
        b == _ancestor_distances(other, 0)
    IN IF a.exc # "none" THEN [exc |-> a.exc, label |-> NoLabel]
       ELSE IF b.exc # "none" THEN [exc |-> b.exc, label |-> NoLabel]
       ELSE IF other \in DOMAIN a.map
       THEN [exc |-> "none",
             label |-> Label("ancestor", a.map[other], Max(a.map[other] - 2, 0),
                             0, 0, gender[other])]
       ELSE IF subject \in DOMAIN b.map
       THEN [exc |-> "none",
             label |-> Label("descendant", b.map[subject], Max(b.map[subject] - 2, 0),
                             0, 0, gender[other])]
       ELSE LET closest == closest_common_ancestors(a.map, b.map)
            IN IF closest = {}
               THEN [exc |-> "none", label |-> Label("unrelated", 0, 0, 0, 0, gender[other])]
               ELSE LET full == Cardinality({c \in closest : a.map[c] = 1 /\ b.map[c] = 1}) = 2
                        \* equally close ancestors: the lowest key stands
                        \* for the order the description leaves open
                        pick == CHOOSE c \in closest : \A d \in closest : c <= d
                    IN [exc |-> "none",
                        label |-> collateral_label(a.map[pick], b.map[pick], full,
                                                   gender[other])]

(* ---------------------------- relatives ------------------------------- *)
\* the root filter without its "not"
root_ancestors_without_not(self, ancs) ==
    LET roots == {p \in ancs : father[p] # None /\ mother[p] # None}
    IN IF roots = {} THEN {self} ELSE roots

\* [p for p in ancestors if not (p.father and p.mother)] or [self]
root_ancestors(self, ancs) ==
    LET roots == {p \in ancs : ~(father[p] # None /\ mother[p] # None)}
    IN IF roots = {} THEN {self} ELSE roots

relatives(self) ==
    LET a == ancestors(self)
        failed(e, roots) ==
            [exc |-> e, set |-> {}, roots |-> roots, labels |-> EmptyMap]
    IN IF a.exc # "none" THEN failed(a.exc, {})
       ELSE
         LET roots == root_ancestors(self, a.set)
             walk == [r \in roots |-> descendants(r, 0)]
         IN IF \E r \in roots : walk[r].exc # "none" THEN failed("RuntimeError", roots)
            ELSE
              LET candidates == roots \cup UNION {Range(walk[r].seq) : r \in roots}
              IN IF self \notin candidates THEN failed("KeyError", roots)
                 ELSE
                   LET rest == candidates \ {self}
                       named == [q \in rest |-> describe_relative(self, q)]
                   IN IF \E q \in rest : named[q].exc # "none"
                      THEN failed("RuntimeError", roots)
                      ELSE [exc |-> "none", set |-> rest, roots |-> roots,
                            labels |-> [q \in rest |-> named[q].label]]

(* ---------------------------- the family graph ----------------------- *)
Parents(p) == {mother[p], father[p]} \ {None}

\* the persons d parent links above p
RECURSIVE AncestorsAt(_, _)
AncestorsAt(p, d) ==
    IF d = 0 THEN {p}
    ELSE UNION {Parents(q) : q \in AncestorsAt(p, d - 1)}

\* the persons d child links below q, each link resolved by children()
RECURSIVE ChildrenAt(_, _)
ChildrenAt(q, d) ==
    IF d = 0 THEN {q}
    ELSE UNION {Range(children(c)) : c \in ChildrenAt(q, d - 1)}

Generations == 1..Cardinality(Persons)

IsAncestor(q, p) == \E d \in Generations : q \in AncestorsAt(p, d)

\* the least number of parent links from p up to its ancestor q
MinDistance(p, q) ==
    CHOOSE d \in Generations :
        /\ q \in AncestorsAt(p, d)
        /\ \A e \in 1..(d - 1) : q \notin AncestorsAt(p, e)

Acyclic == \A p \in Persons : ~IsAncestor(p, p)

GenderConsistent ==
    \A p \in Persons :
        /\ mother[p] # None => gender[mother[p]] = "F"
        /\ father[p] # None => gender[father[p]] = "M"

NoDuplicates(seq) == \A i, j \in DOMAIN seq : seq[i] = seq[j] => i = j

(* ---------------------------- actions --------------------------------- *)
TypeOK ==
    /\ gender \in [Persons -> {"F", "M"}]
    /\ mother \in [Persons -> Persons \cup {None}]
    /\ father \in [Persons -> Persons \cup {None}]

fields == <<gender, mother, father, date_of_birth, date_of_death, deceased, today>>

\* the recorded parent links of the table
Links ==
    {<<"mother", p>> : p \in {r \in Persons : mother[r] # None}}
        \cup {<<"father", p>> : p \in {r \in Persons : father[r] # None}}

\* person.mother = q; person.save(), q among the choices the field allows
SetMother(p, q) ==
    /\ call = Idle
    /\ q = None \/ (q \in Persons /\ gender[q] = "F")
    /\ mother[p] # q
    /\ mother' = [mother EXCEPT ![p] = q]
    /\ UNCHANGED <<gender, father, date_of_birth, date_of_death, deceased, today, call>>
    /\ Cardinality(Links') <= MaxLinks

SetFather(p, q) ==
    /\ call = Idle
    /\ q = None \/ (q \in Persons /\ gender[q] = "M")
    /\ father[p] # q
    /\ father' = [father EXCEPT ![p] = q]
    /\ UNCHANGED <<gender, mother, date_of_birth, date_of_death, deceased, today, call>>
    /\ Cardinality(Links') <= MaxLinks

Age(p) ==
    /\ call = Idle
    /\ LET r == age(p)
       IN call' = [Returned("age", p) EXCEPT !.known = r.known, !.years = r.years]
    /\ UNCHANGED fields

Siblings(p) ==
    /\ call = Idle
    /\ call' = [Returned("siblings", p) EXCEPT !.seq = siblings(p)]
    /\ UNCHANGED fields

Children(p) ==
    /\ call = Idle
    /\ call' = [Returned("children", p) EXCEPT !.seq = children(p)]
    /\ UNCHANGED fields

Descendants(p) ==
    /\ call = Idle
    /\ LET r == descendants(p, 0)
       IN call' = [Returned("descendants", p) EXCEPT !.exc = r.exc, !.seq = r.seq]
    /\ UNCHANGED fields

AncestorDistances(p) ==
    /\ call = Idle
    /\ LET r == _ancestor_distances(p, 0)
       IN call' = [Returned("_ancestor_distances", p) EXCEPT !.exc = r.exc, !.map = r.map]
    /\ UNCHANGED fields

Ancestors(p) ==
    /\ call = Idle
    /\ LET r == ancestors(p)
       IN call' = [Returned("ancestors", p) EXCEPT !.exc = r.exc, !.set = r.set]
    /\ UNCHANGED fields

Relatives(p) ==
    /\ call = Idle
    /\ LET r == relatives(p)
       IN call' = [Returned("relatives", p) EXCEPT !.exc = r.exc, !.set = r.set,
                                                   !.roots = r.roots, !.labels = r.labels]
    /\ UNCHANGED fields

DescribeRelative(p, q) ==
    /\ call = Idle
    /\ p # q
    /\ LET r == describe_relative(p, q)
       IN call' = [Returned("describe_relative", p) EXCEPT !.other = q, !.exc = r.exc,
                                                           !.label = r.label]
    /\ UNCHANGED fields

DefaultBirth(p) == Date(1960 + p, 6, 15)

\* a table of n rows with no parent recorded yet
EmptyTable(n) ==
    /\ gender = [p \in 1..n |-> GenderOf(p)]
    /\ mother = [p \in 1..n |-> None]
    /\ father = [p \in 1..n |-> None]
    /\ date_of_birth = [p \in 1..n |-> DefaultBirth(p)]
    /\ date_of_death = [p \in 1..n |-> NoDate]
    /\ deceased = [p \in 1..n |-> FALSE]
    /\ today = Date(2020, 6, 15)
    /\ call = Idle

Init == EmptyTable(NumPersons)

\* a behaviour is the edit history of the table followed by one query on
\* the rows as they then stand
Next ==
    \/ \E p \in Persons, q \in Persons \cup {None} : SetMother(p, q)
    \/ \E p \in Persons, q \in Persons \cup {None} : SetFather(p, q)
    \/ \E p \in Persons : Siblings(p)
    \/ \E p \in Persons : Children(p)
    \/ \E p \in Persons : Descendants(p)
    \/ \E p \in Persons : AncestorDistances(p)
    \/ \E p \in Persons : Ancestors(p)
    \/ \E p \in Persons : Relatives(p)

Spec == Init /\ [][Next]_vars

(* ------------- the age of one person, over a range of dates ----------- *)
Years == {2000, 2019, 2020}
Months == {5, 6, 7}
Days == {14, 15, 16}
Dates == {Date(y, m, d) : y \in Years, m \in Months, d \in Days}

InitAge ==
    /\ gender \in [{1} -> {"F", "M"}]
    /\ mother = [p \in {1} |-> None]
    /\ father = [p \in {1} |-> None]
    /\ date_of_birth \in [{1} -> Dates \cup {NoDate}]
    /\ date_of_death \in [{1} -> Dates \cup {NoDate}]
    /\ deceased \in [{1} -> BOOLEAN]
    /\ today \in Dates
    /\ call = Idle

NextAge == \E p \in Persons : Age(p)

SpecAge == InitAge /\ [][NextAge]_vars

(* ------------- kinship names, over families entered eldest first ------ *)
\* the parent columns of n rows in which every parent has a lower key than
\* the child and the gender g
RECURSIVE ParentColumns(_, _)
ParentColumns(n, g) ==
    IF n = 0 THEN {EmptyMap}
    ELSE {Update(col, [k \in {n} |-> q]) :
            col \in ParentColumns(n - 1, g),
            q \in {None} \cup {x \in 1..(n - 1) : GenderOf(x) = g}}

InitNamer ==
    /\ gender = [p \in 1..NamerPersons |-> GenderOf(p)]
    /\ mother \in ParentColumns(NamerPersons, "F")
    /\ father \in ParentColumns(NamerPersons, "M")
    /\ date_of_birth = [p \in 1..NamerPersons |-> DefaultBirth(p)]
    /\ date_of_death = [p \in 1..NamerPersons |-> NoDate]
    /\ deceased = [p \in 1..NamerPersons |-> FALSE]
    /\ today = Date(2020, 6, 15)
    /\ call = Idle
    /\ Cardinality(Links) <= NamerLinks

NextNamer ==
    \/ \E p \in Persons, q \in Persons : DescribeRelative(p, q)
    \/ \E p \in Persons : Relatives(p)

SpecNamer == InitNamer /\ [][NextNamer]_vars

(* ====================================================================== *)
(* Properties                                                             *)
(* ====================================================================== *)

\* C1: the distance the ancestor walk records for every ancestor Q of P is
\* the minimum number of parent links over all chains from P to Q.
C1_MinimumDistance ==
    (call.op = "_ancestor_distances" /\ call.exc = "none") =>
        \A q \in DOMAIN call.map : call.map[q] = MinDistance(call.self, q)

\* C2: the ancestor walk and the descendant walk end either with their
\* result or with a GraphIntegrityError; on a cyclic graph they never
\* recurse until the interpreter gives up.
C2_WalksDetectCycles ==
    call.op \in {"_ancestor_distances", "descendants"} =>
        call.exc \in {"none", "GraphIntegrityError"}

\* the brute-force union of the descendants of every ancestor of p
BruteForceRelatives(p) ==
    UNION {Range(descendants(a, 0).seq) : a \in ancestors(p).set}

C5_AncestorsAndDescendantsConverse ==
    (call.op = "_ancestor_distances" /\ call.exc = "none") =>
        \A q \in DOMAIN call.map :
            LET down == descendants(q, 0)
            IN /\ down.exc = "none"
               /\ call.self \in Range(down.seq)
               /\ call.self \in ChildrenAt(q, call.map[q])

\* C5 holds of every graph without a cycle
AcyclicConverse == Acyclic => C5_AncestorsAndDescendantsConverse

\* C6: the sequence descendants(P) returns holds each person at most once.
C6_DescendantsOnce ==
    (call.op = "descendants" /\ call.exc = "none") => NoDuplicates(call.seq)

SharesParent(p, q) ==
    \/ father[p] # None /\ father[q] # None /\ father[p] = father[q]
    \/ mother[p] # None /\ mother[q] # None /\ mother[p] = mother[q]

\* C7: siblings(P) returns exactly the other persons who share a recorded
\* father or a recorded mother with P; a missing parent is never shared.
C7_SiblingsShareARecordedParent ==
    call.op = "siblings" =>
        /\ Range(call.seq) = {q \in Persons \ {call.self} : SharesParent(call.self, q)}
        /\ NoDuplicates(call.seq)

C7_Witness ==
    /\ call.op = "siblings" /\ call.seq # <<>>
    /\ father[call.self] = None
    /\ \E q \in Persons \ {call.self} : father[q] = None /\ q \notin Range(call.seq)

WholeYears(born, end) ==
    CHOOSE n \in -40..40 :
        /\ ~DateLess(end, Date(born.year + n, born.month, born.day))
        /\ DateLess(end, Date(born.year + n + 1, born.month, born.day))

\* C8: age() is unknown exactly when the birth date is missing or a deceased
\* person has no death date; otherwise it is the whole years from the birth
\* date to the death date (deceased) or to today, so a living person born
\* 2000-06-15 is 19 before 2020-06-15 and 20 from that day to the year's end.
C8_AgeInWholeYears ==
    call.op = "age" =>
        LET p == call.self
            born == date_of_birth[p]
            unknown == born = NoDate \/ (deceased[p] /\ date_of_death[p] = NoDate)
            end == IF deceased[p] THEN date_of_death[p] ELSE today
        IN /\ call.known = ~unknown
           /\ call.known => call.years = WholeYears(born, end)
           /\ (born = Date(2000, 6, 15) /\ ~deceased[p] /\ today.year = 2020) =>
                 /\ call.known
                 /\ call.years = IF DateLess(today, Date(2020, 6, 15)) THEN 19 ELSE 20

C8_Witness ==
    /\ call.op = "age" /\ call.known /\ call.years = 19
    /\ date_of_birth[call.self] = Date(2000, 6, 15)
    /\ ~deceased[call.self]
    /\ today = Date(2020, 6, 14)

\* C9: for two persons neither of whom is an ancestor of the other, the
\* label comes from a common ancestor that minimises da + db, and when
\* min(da, db) >= 2 it is a cousin of degree min(da, db) - 1 and removal
\* |da - db| (2 and 2: first cousin; 2 and 3: first cousin once removed).
C9_CousinDegreeAndRemoval ==
    (/\ call.op = "describe_relative" /\ call.exc = "none"
     /\ ~IsAncestor(call.other, call.self)
     /\ ~IsAncestor(call.self, call.other)) =>
        LET common == {a \in Persons : IsAncestor(a, call.self) /\ IsAncestor(a, call.other)}
            sum(a) == MinDistance(call.self, a) + MinDistance(call.other, a)
            closest == {a \in common : \A b \in common : sum(a) <= sum(b)}
        IN common # {} =>
             \E a \in closest :
                 LET da == MinDistance(call.self, a)
                     db == MinDistance(call.other, a)
                 IN Min(da, db) >= 2 =>
                      /\ call.label.kind = "cousin"
                      /\ call.label.degree = Min(da, db) - 1
                      /\ call.label.removal = Abs(da - db)
====
